---------------------------- MODULE Spec2Model ----------------------------
(***************************************************************************)
(* Model of esp32_serial_monitor.py: the line classifier (classify_line),  *)
(* the ANSI SGR renderer (ansi_to_html) and the SerialMonitor window's     *)
(* reader thread / UI-thread log handling.                                 *)
(*                                                                         *)
(* A Python str is a sequence of one-character strings; the byte 0x1b is   *)
(* the element ESC.  The list `out` of ansi_to_html is a sequence whose    *)
(* elements are the characters of the escaped chunks and, as one element   *)
(* each, the tags the code appends ("".join(out) is their concatenation).  *)
(***************************************************************************)
EXTENDS Integers, Sequences, FiniteSets, TLC

\* ------------------------------------------------------------------ bounds
MaxPieces == 4
MaxClassifyPieces == 3
MaxSessions == 2
MaxReads == 3

\* ------------------------------------------------------------- characters
ESC == "ESC"
Digits == <<"0", "1", "2", "3", "4", "5", "6", "7", "8", "9">>
DigitChars == {Digits[i] : i \in 1..10}
\* the character class [0-9;] of ANSI_RE
CodeChars == DigitChars \cup {";"}

RECURSIVE Concat(_)
Concat(ss) == IF ss = <<>> THEN <<>> ELSE Head(ss) \o Concat(Tail(ss))

\* s[a:b] of Python, 0-based, b exclusive
Slice(s, a, b) == SubSeq(s, a + 1, b)

\* ------------------------------------------------------------ html_escape
RECURSIVE Replace(_, _, _)
Replace(s, ch, rep) ==
    IF s = <<>> THEN <<>>
    ELSE (IF Head(s) = ch THEN rep ELSE <<Head(s)>>) \o Replace(Tail(s), ch, rep)

AmpEntity == <<"&", "a", "m", "p", ";">>
LtEntity == <<"&", "l", "t", ";">>
GtEntity == <<"&", "g", "t", ";">>

\* a plausible slip: "&" replaced last, so the entities of < and > are escaped again
html_escape_AmpLast(s) ==
    Replace(Replace(Replace(s, "<", LtEntity), ">", GtEntity), "&", AmpEntity)

html_escape(s) ==
    Replace(Replace(Replace(s, "&", AmpEntity), "<", LtEntity), ">", GtEntity)

\* ---------------------------------------------------------------- ANSI_RE
\* first index >= j (1-based) of s whose character is not in [0-9;]
RECURSIVE CodeEnd(_, _)
CodeEnd(s, j) ==
    IF j <= Len(s) /\ s[j] \in CodeChars THEN CodeEnd(s, j + 1) ELSE j

\* does  \x1b\[([0-9;]*)m  match at 1-based index i
MatchAt(s, i) ==
    /\ i + 2 <= Len(s)
    /\ s[i] = ESC
    /\ s[i + 1] = "["
    /\ LET e == CodeEnd(s, i + 2) IN e <= Len(s) /\ s[e] = "m"

\* the match object: m.start(), m.end() (0-based, end exclusive), m.group(1)
MatchObj(s, i) ==
    LET e == CodeEnd(s, i + 2)
    IN [start |-> i - 1, end |-> e, codes |-> SubSeq(s, i + 2, e - 1)]

\* ANSI_RE.finditer(s): the non-overlapping matches, left to right, from 0-based pos
RECURSIVE finditer(_, _)
finditer(s, pos) ==
    IF pos >= Len(s) THEN <<>>
    ELSE IF MatchAt(s, pos + 1)
         THEN LET m == MatchObj(s, pos + 1) IN <<m>> \o finditer(s, m.end)
         ELSE finditer(s, pos + 1)

\* ------------------------------------------------------------- ANSI_COLOR
ColorCodes == (30..37) \cup (90..97)
ANSI_COLOR ==
    [n \in ColorCodes |->
        CASE n = 30 -> "#000000" [] n = 31 -> "#ff4d4d" [] n = 32 -> "#00ff00"
          [] n = 33 -> "#ffff00" [] n = 34 -> "#4da3ff" [] n = 35 -> "#ff66ff"
          [] n = 36 -> "#00ffff" [] n = 37 -> "#e0e0e0" [] n = 90 -> "#808080"
          [] n = 91 -> "#ff8080" [] n = 92 -> "#80ff80" [] n = 93 -> "#ffff80"
          [] n = 94 -> "#a0c8ff" [] n = 95 -> "#ff9cff" [] n = 96 -> "#a0ffff"
          [] n = 97 -> "#ffffff"]

LOG_COLORS ==
    [error |-> "#FF0000", warning |-> "#FFFF00", info |-> "#00FF00",
     debug |-> "#00FFFF", verbose |-> "#808080", default |-> "#e0e0e0"]

\* ---------------------------------------------------------- current_style
\* the dict current_style: key 'color' absent is NoColor, key 'bold' absent is FALSE
NoColor == "none"
EmptyStyle == [color |-> NoColor, bold |-> FALSE]

RECURSIVE JoinSemi(_)
JoinSemi(parts) ==
    IF parts = <<>> THEN ""
    ELSE IF Len(parts) = 1 THEN parts[1]
    ELSE parts[1] \o ";" \o JoinSemi(Tail(parts))

style_to_html(style_dict) ==
    JoinSemi((IF style_dict.color # NoColor
              THEN <<"color:" \o style_dict.color>> ELSE <<>>)
             \o (IF style_dict.bold THEN <<"font-weight:600">> ELSE <<>>))

SpanOpen(st) == "<span style=\"" \o st \o "\">"
SpanClose == "</span>"

\* --------------------------------------------------------- codes.split(";")
RECURSIVE SplitFrom(_, _)
SplitFrom(s, cur) ==
    IF s = <<>> THEN <<cur>>
    ELSE IF Head(s) = ";" THEN <<cur>> \o SplitFrom(Tail(s), <<>>)
    ELSE SplitFrom(Tail(s), Append(cur, Head(s)))

Split(s) == SplitFrom(s, <<>>)

DigitVal(c) == (CHOOSE i \in 1..10 : Digits[i] = c) - 1

\* int(c) for a non-empty string of decimal digits
RECURSIVE int(_)
int(c) ==
    IF Len(c) = 1 THEN DigitVal(c[1])
    ELSE 10 * int(SubSeq(c, 1, Len(c) - 1)) + DigitVal(c[Len(c)])

\* --------------------------------------------------------- ansi_to_html
\* the loop state: out, last, open_span, current_style
LoopInit == [out |-> <<>>, last |-> 0, open_span |-> FALSE, current_style |-> EmptyStyle]

CloseSpan(st) ==
    IF st.open_span
    THEN [st EXCEPT !.out = Append(@, SpanClose), !.open_span = FALSE]
    ELSE st

\* a plausible slip: the reset closes the span and keeps the style
Reset_KeepStyle(st) == CloseSpan(st)

\* the reset: close the open span, current_style.clear()
Reset(st) == [CloseSpan(st) EXCEPT !.current_style = EmptyStyle]

\* a plausible slip: a sub-code 0 inside a list is ignored like any other SGR
SubCode_IgnoreZero(st, c) ==
    IF c = <<>> THEN st
    ELSE LET n == int(c)
         IN IF n = 1 THEN [st EXCEPT !.current_style.bold = TRUE]
            ELSE IF n \in ColorCodes
                 THEN [st EXCEPT !.current_style.color = ANSI_COLOR[n]]
            ELSE st

\* one pass of `for c in codes.split(";")`
SubCode(st, c) ==
    IF c = <<>> THEN st
    ELSE LET n == int(c)
         IN IF n = 0 THEN Reset(st)
            ELSE IF n = 1 THEN [st EXCEPT !.current_style.bold = TRUE]
            ELSE IF (30 <= n /\ n <= 37) \/ (90 <= n /\ n <= 97)
                 THEN [st EXCEPT !.current_style.color = ANSI_COLOR[n]]
            ELSE st

RECURSIVE SubCodes(_, _)
SubCodes(st, cs) ==
    IF cs = <<>> THEN st ELSE SubCodes(SubCode(st, Head(cs)), Tail(cs))

\* a plausible slip: the new span is opened without closing the one that is open
Reopen_NoClose(st) ==
    LET h == style_to_html(st.current_style)
    IN IF h # ""
       THEN [st EXCEPT !.out = Append(@, SpanOpen(h)), !.open_span = TRUE]
       ELSE st

\* "open (or reopen) span reflecting new style"
Reopen(st) ==
    LET c == CloseSpan(st)
        h == style_to_html(c.current_style)
    IN IF h # ""
       THEN [c EXCEPT !.out = Append(@, SpanOpen(h)), !.open_span = TRUE]
       ELSE c

\* the body of `for m in ANSI_RE.finditer(s)`
LoopBody(s, st, m) ==
    LET t == [st EXCEPT
                !.out = IF m.start > st.last
                        THEN @ \o html_escape(Slice(s, st.last, m.start))
                        ELSE @,
                !.last = m.end]
    IN IF m.codes = <<>> \/ m.codes = <<"0">>
       THEN Reset(t)
       ELSE Reopen(SubCodes(t, Split(m.codes)))

\* the loop states: before the first match, then after each match
RECURSIVE LoopStates(_, _, _)
LoopStates(s, st, ms) ==
    IF ms = <<>> THEN <<st>>
    ELSE <<st>> \o LoopStates(s, LoopBody(s, st, Head(ms)), Tail(ms))

\* the tail: the text after the last match, then the closing of the open span
Finish(s, st) ==
    LET t == IF st.last < Len(s)
             THEN [st EXCEPT !.out = @ \o html_escape(Slice(s, st.last, Len(s)))]
             ELSE st
    IN CloseSpan(t).out

ansi_to_html(s) ==
    LET sts == LoopStates(s, LoopInit, finditer(s, 0))
    IN Finish(s, sts[Len(sts)])


\* ------------------------------------------------------------ classify_line
WhiteSpace == {" ", "\t", "\n", "\r"}

\* s.strip()
RECURSIVE LStrip(_)
LStrip(s) == IF s # <<>> /\ Head(s) \in WhiteSpace THEN LStrip(Tail(s)) ELSE s

RECURSIVE RStrip(_)
RStrip(s) ==
    IF s # <<>> /\ s[Len(s)] \in WhiteSpace THEN RStrip(SubSeq(s, 1, Len(s) - 1)) ELSE s

strip(s) == RStrip(LStrip(s))

UpperCase == <<"A", "B", "C", "D", "E", "F", "G", "H", "I", "J", "K", "L", "M", "N", "O", "P", "Q", "R", "S", "T", "U", "V", "W", "X", "Y", "Z">>
LowerCase == <<"a", "b", "c", "d", "e", "f", "g", "h", "i", "j", "k", "l", "m", "n", "o", "p", "q", "r", "s", "t", "u", "v", "w", "x", "y", "z">>

LowerChar(c) ==
    IF \E i \in 1..26 : UpperCase[i] = c
    THEN LowerCase[CHOOSE i \in 1..26 : UpperCase[i] = c]
    ELSE c

\* s.lower()
lower(s) == [i \in 1..Len(s) |-> LowerChar(s[i])]

\* x in t  (substring)
In(x, t) == \E i \in 0..(Len(t) - Len(x)) : SubSeq(t, i + 1, i + Len(x)) = x

\* any(x in t for x in toks)
AnyIn(t, toks) == \E k \in 1..Len(toks) : In(toks[k], t)

ErrorTokens ==
    <<<<"e", "r", "r", "o", "r">>, <<"f", "a", "t", "a", "l">>, <<"f", "a", "i", "l">>,
      <<"e", "x", "c", "e", "p", "t", "i", "o", "n">>,
      <<"a", "s", "s", "e", "r", "t">>, <<" ", "e", " ">>, <<"[", "e", "]">>, <<" ", "e", "/">>>>
WarningTokens ==
    <<<<"w", "a", "r", "n">>, <<"w", "a", "r", "n", "i", "n", "g">>,
      <<" ", "w", " ">>, <<"[", "w", "]">>, <<" ", "w", "/">>>>
InfoTokens == <<<<"i", "n", "f", "o">>, <<" ", "i", " ">>, <<"[", "i", "]">>, <<" ", "i", "/">>>>
DebugTokens ==
    <<<<"d", "e", "b", "u", "g">>, <<"d", "b", "g">>, <<" ", "d", " ">>, <<"[", "d", "]">>, <<" ", "d", "/">>>>
VerboseTokens ==
    <<<<"v", "e", "r", "b">>, <<"t", "r", "a", "c", "e">>, <<" ", "v", " ">>, <<"[", "v", "]">>, <<" ", "v", "/">>>>

EscIntro == <<ESC, "[">>

\* a plausible slip: the keywords are searched in the line as it is, not stripped
classify_line_NoStrip(s) ==
    LET t == lower(s)
    IN IF In(EscIntro, s) THEN "ansi"
       ELSE IF AnyIn(t, ErrorTokens) THEN "error"
       ELSE IF AnyIn(t, WarningTokens) THEN "warning"
       ELSE IF AnyIn(t, InfoTokens) THEN "info"
       ELSE IF AnyIn(t, DebugTokens) THEN "debug"
       ELSE IF AnyIn(t, VerboseTokens) THEN "verbose"
       ELSE "default"

classify_line(s) ==
    LET t == lower(strip(s))
    IN IF In(EscIntro, s) THEN "ansi"
       ELSE IF AnyIn(t, ErrorTokens) THEN "error"
       ELSE IF AnyIn(t, WarningTokens) THEN "warning"
       ELSE IF AnyIn(t, InfoTokens) THEN "info"
       ELSE IF AnyIn(t, DebugTokens) THEN "debug"
       ELSE IF AnyIn(t, VerboseTokens) THEN "verbose"
       ELSE "default"


\* ------------------------------------------------------------------- state
VARIABLES
    line,              \* the argument s of the function under check
    called,            \* has the function been applied to line
    html,              \* ansi_to_html(line)
    states,            \* the loop states of ansi_to_html(line)
    kind,              \* classify_line(line)
    running,           \* self.running
    serial_connection, \* self.serial_connection: 0 is None, c > 0 the Serial object of session c
    is_open,           \* is_open of each Serial object
    read_thread,       \* self.read_thread: 0 is None, t > 0 the thread of session t
    start_stop_btn,    \* the text of the Start/Stop button
    timestamp_chk,     \* the Timestamp checkbox
    threads,           \* each reader thread: its position in read_serial and its locals
    queue,             \* append_log signals emitted and not yet handled by the UI thread
    debug_buffer,      \* self.debug_buffer
    esp_buffer,        \* self.esp_buffer
    debug_terminal,    \* the html inserted into the Debug pane
    esp_terminal,      \* the html inserted into the Logs pane
    nread,             \* history: number of non-empty lines readline has returned
    ncleared           \* history: number of lines clear_logs has dropped from the buffers

pureVars == <<line, called, html, states, kind>>
monitorVars ==
    <<running, serial_connection, is_open, read_thread, start_stop_btn, timestamp_chk,
      threads, queue, debug_buffer, esp_buffer, debug_terminal, esp_terminal,
      nread, ncleared>>
vars == <<pureVars, monitorVars>>

Sessions == 1..MaxSessions

NoThread == [pc |-> "none", conn |-> 0, raw |-> <<>>, arrival |-> 0]

\* SerialMonitor.__init__
MonitorInit ==
    /\ running = FALSE
    /\ serial_connection = 0
    /\ is_open = [c \in Sessions |-> FALSE]
    /\ read_thread = 0
    /\ start_stop_btn = "Start"
    /\ timestamp_chk = TRUE
    /\ threads = [t \in Sessions |-> NoThread]
    /\ queue = <<>>
    /\ debug_buffer = <<>>
    /\ esp_buffer = <<>>
    /\ debug_terminal = <<>>
    /\ esp_terminal = <<>>
    /\ nread = 0
    /\ ncleared = 0

PureIdle ==
    /\ line = <<>>
    /\ called = FALSE
    /\ html = <<>>
    /\ states = <<>>
    /\ kind = ""

\* ---------------------------------------------------- inputs of ansi_to_html
AnsiPieces ==
    { <<ESC, "[", "3", "1", "m">>,
      <<ESC, "[", "0", "m">>,
      <<ESC, "[", "m">>,
      <<ESC, "[", "1", "m">>,
      <<ESC, "[", "0", ";", "3", "4", "m">>,
      <<ESC, "[", "4", "m">>,
      <<ESC, "[">>,
      <<"a">>, <<"&">>, <<"<", ">">> }

SeqsUpTo(S, n) == UNION {[1..k -> S] : k \in 0..n}

AnsiLines == {Concat(ps) : ps \in SeqsUpTo(AnsiPieces, MaxPieces)}

InitAnsi ==
    /\ line \in AnsiLines
    /\ called = FALSE
    /\ html = <<>>
    /\ states = <<>>
    /\ kind = ""
    /\ MonitorInit

Render ==
    /\ ~called
    /\ called' = TRUE
    /\ html' = ansi_to_html(line)
    /\ states' = LoopStates(line, LoopInit, finditer(line, 0))
    /\ UNCHANGED <<line, kind, monitorVars>>

NextAnsi == Render

SpecAnsi == InitAnsi /\ [][NextAnsi]_vars

\* --------------------------------------------------- inputs of classify_line
ClassifyPieces ==
    { <<"I", " ", "(", "1", ")">>, <<"W", "(", "2", ")">>, <<"E", " ", "(", "9", ")">>, <<"D", " ", "(", "3", ")">>, <<"V", "(", "4", ")">>,
      <<"x">>, <<" ">>, <<"f", "a", "i", "l">>, <<"W", "A", "R", "N">>, <<"i", "n", "f", "o">>, <<"d", "b", "g">>, <<"t", "r", "a", "c", "e">>,
      <<" ", "e", " ">>, <<"[", "w", "]">>, <<" ", "i", "/">>, <<"[", "d", "]">>, <<" ", "v", " ">>,
      EscIntro }

ClassifyLines == {Concat(ps) : ps \in SeqsUpTo(ClassifyPieces, MaxClassifyPieces)}

InitClassify ==
    /\ line \in ClassifyLines
    /\ called = FALSE
    /\ html = <<>>
    /\ states = <<>>
    /\ kind = ""
    /\ MonitorInit

Classify ==
    /\ ~called
    /\ called' = TRUE
    /\ kind' = classify_line(line)
    /\ UNCHANGED <<line, html, states, monitorVars>>

NextClassify == Classify

SpecClassify == InitClassify /\ [][NextClassify]_vars


\* ------------------------------------------------------------ SerialMonitor
\* what readline() hands back: a line with its terminator, a bare terminator, or
\* nothing (the 1 s timeout)
WireLines ==
    { <<"a", "\r", "\n">>,
      <<ESC, "[", "3", "1", "m", "b", "\n">>,
      <<"\n">>,
      <<>> }

\* .rstrip("\r\n")
RECURSIVE rstrip_crlf(_)
rstrip_crlf(s) ==
    IF s # <<>> /\ s[Len(s)] \in {"\r", "\n"}
    THEN rstrip_crlf(SubSeq(s, 1, Len(s) - 1))
    ELSE s

\* f"Serial Error: {e}"
SerialErrorMsg == <<"S", "e", "r", "i", "a", "l", " ", "E", "r", "r", "o", "r", ":", " ", "e">>

\* "[HH:MM:SS] ", the clock read abstracted to one stamp
TimeStamp == <<"[", "t", "]", " ">>

Ports == {"", "COM3"}

\* toggle_monitoring, not running: no port selected, the port fails to open, or a
\* session starts
ToggleStart ==
    /\ ~running
    /\ \E port \in Ports, opens \in BOOLEAN :
          \/ /\ port = ""
             /\ UNCHANGED monitorVars
          \/ /\ port # ""
             /\ ~opens
             /\ UNCHANGED monitorVars
          \/ /\ port # ""
             /\ opens
             /\ read_thread < MaxSessions
             /\ LET c == read_thread + 1
                IN /\ serial_connection' = c
                   /\ is_open' = [is_open EXCEPT ![c] = TRUE]
                   /\ running' = TRUE
                   /\ start_stop_btn' = "Stop"
                   /\ read_thread' = c
                   /\ threads' = [threads EXCEPT ![c] = [NoThread EXCEPT !.pc = "while"]]
             /\ UNCHANGED <<timestamp_chk, queue, debug_buffer, esp_buffer,
                            debug_terminal, esp_terminal, nread, ncleared>>
    /\ UNCHANGED pureVars

\* stop_serial
stop_serial ==
    /\ running' = FALSE
    /\ is_open' = IF serial_connection # 0 /\ is_open[serial_connection]
                  THEN [is_open EXCEPT ![serial_connection] = FALSE]
                  ELSE is_open
    /\ start_stop_btn' = "Start"
    /\ UNCHANGED <<serial_connection, read_thread, timestamp_chk, threads, queue,
                   debug_buffer, esp_buffer, debug_terminal, esp_terminal,
                   nread, ncleared>>

\* toggle_monitoring, running
ToggleStop ==
    /\ running
    /\ stop_serial
    /\ UNCHANGED pureVars

\* read_serial: the test of `while self.running and self.serial_connection`
While(t) ==
    /\ threads[t].pc = "while"
    /\ threads' = [threads EXCEPT ![t].pc =
                      IF running /\ serial_connection # 0 THEN "call" ELSE "done"]
    /\ UNCHANGED <<running, serial_connection, is_open, read_thread, start_stop_btn,
                   timestamp_chk, queue, debug_buffer, esp_buffer, debug_terminal,
                   esp_terminal, nread, ncleared, pureVars>>

\* read_serial: self.serial_connection is loaded and its readline() entered
Call(t) ==
    /\ threads[t].pc = "call"
    /\ threads' = [threads EXCEPT ![t].pc = "readline", ![t].conn = serial_connection]
    /\ UNCHANGED <<running, serial_connection, is_open, read_thread, start_stop_btn,
                   timestamp_chk, queue, debug_buffer, esp_buffer, debug_terminal,
                   esp_terminal, nread, ncleared, pureVars>>

\* the except branch: emit the error to the debug pane, break
Raise(t) ==
    /\ queue' = Append(queue, [target |-> "debug", raw_line |-> SerialErrorMsg, arrival |-> 0])
    /\ threads' = [threads EXCEPT ![t].pc = "done"]
    /\ UNCHANGED nread

\* raw = ....rstrip("\r\n"); if not raw: continue
Got(t, data) ==
    LET raw == rstrip_crlf(data)
    IN IF raw = <<>>
       THEN /\ threads' = [threads EXCEPT ![t].pc = "while"]
            /\ UNCHANGED <<queue, nread>>
       ELSE /\ nread < MaxReads
            /\ nread' = nread + 1
            /\ threads' = [threads EXCEPT ![t].pc = "emit", ![t].raw = raw,
                                          ![t].arrival = nread + 1]
            /\ UNCHANGED queue

\* read_serial: readline() returns or raises.  On a port closed meanwhile pyserial
\* raises or returns nothing (the pending select times out); on an open port it
\* returns data or nothing, or raises on an I/O failure.
ReadLine(t) ==
    /\ threads[t].pc = "readline"
    /\ \/ /\ ~is_open[threads[t].conn]
          /\ \/ Raise(t)
             \/ Got(t, <<>>)
       \/ /\ is_open[threads[t].conn]
          /\ \/ \E data \in WireLines : Got(t, data)
             \/ Raise(t)
    /\ UNCHANGED <<running, serial_connection, is_open, read_thread, start_stop_btn,
                   timestamp_chk, debug_buffer, esp_buffer, debug_terminal,
                   esp_terminal, ncleared, pureVars>>

\* read_serial: target = "esp" if "\x1b[" in raw else "debug"; append_log.emit
Emit(t) ==
    /\ threads[t].pc = "emit"
    /\ queue' = Append(queue,
                       [target |-> IF In(EscIntro, threads[t].raw) THEN "esp" ELSE "debug",
                        raw_line |-> threads[t].raw,
                        arrival |-> threads[t].arrival])
    /\ threads' = [threads EXCEPT ![t].pc = "while"]
    /\ UNCHANGED <<running, serial_connection, is_open, read_thread, start_stop_btn,
                   timestamp_chk, debug_buffer, esp_buffer, debug_terminal,
                   esp_terminal, nread, ncleared, pureVars>>

\* LOG_COLORS.get(kind, LOG_COLORS['default'])
LogColor(k) == IF k \in DOMAIN LOG_COLORS THEN LOG_COLORS[k] ELSE LOG_COLORS["default"]

\* the html on_append_log builds for raw_line behind the stamp ts
LogHtml(ts, raw_line) ==
    html_escape(ts)
    \o (IF In(EscIntro, raw_line)
        THEN ansi_to_html(raw_line)
        ELSE <<SpanOpen("color:" \o LogColor(classify_line(raw_line)))>>
             \o html_escape(raw_line) \o <<SpanClose>>)

\* on_append_log, run by the UI thread for the oldest pending signal; a buffer entry
\* is display_line, with the line's arrival number as history
on_append_log ==
    /\ queue # <<>>
    /\ LET ev == Head(queue)
           ts == IF timestamp_chk THEN TimeStamp ELSE <<>>
           entry == [display_line |-> ts \o ev.raw_line, arrival |-> ev.arrival]
           page == LogHtml(ts, ev.raw_line) \o <<"<br>">>
       IN IF ev.target = "esp"
          THEN /\ esp_terminal' = Append(esp_terminal, page)
               /\ esp_buffer' = Append(esp_buffer, entry)
               /\ UNCHANGED <<debug_terminal, debug_buffer>>
          ELSE /\ debug_terminal' = Append(debug_terminal, page)
               /\ debug_buffer' = Append(debug_buffer, entry)
               /\ UNCHANGED <<esp_terminal, esp_buffer>>
    /\ queue' = Tail(queue)
    /\ UNCHANGED <<running, serial_connection, is_open, read_thread, start_stop_btn,
                   timestamp_chk, threads, nread, ncleared, pureVars>>

LineEntries(buf) == SelectSeq(buf, LAMBDA e : e.arrival > 0)

\* clear_logs
clear_logs ==
    /\ debug_terminal' = <<>>
    /\ esp_terminal' = <<>>
    /\ debug_buffer' = <<>>
    /\ esp_buffer' = <<>>
    /\ ncleared' = ncleared + Len(LineEntries(debug_buffer)) + Len(LineEntries(esp_buffer))
    /\ UNCHANGED <<running, serial_connection, is_open, read_thread, start_stop_btn,
                   timestamp_chk, threads, queue, nread, pureVars>>

\* the user ticks or unticks the Timestamp checkbox
SetTimestamp ==
    /\ timestamp_chk' = ~timestamp_chk
    /\ UNCHANGED <<running, serial_connection, is_open, read_thread, start_stop_btn,
                   threads, queue, debug_buffer, esp_buffer, debug_terminal,
                   esp_terminal, nread, ncleared, pureVars>>

Init == PureIdle /\ MonitorInit

Next ==
    \/ ToggleStart
    \/ ToggleStop
    \/ on_append_log
    \/ clear_logs
    \/ SetTimestamp
    \/ \E t \in Sessions : While(t)
    \/ \E t \in Sessions : Call(t)
    \/ \E t \in Sessions : ReadLine(t)
    \/ \E t \in Sessions : Emit(t)

Spec == Init /\ [][Next]_vars

\* =================================================================== claims
Last(q) == q[Len(q)]

Palette == {ANSI_COLOR[n] : n \in ColorCodes}
StyleTexts ==
    {"color:" \o c : c \in Palette} \cup {"font-weight:600"}
        \cup {"color:" \o c \o ";font-weight:600" : c \in Palette}
OpenTags == {"<span style=\"" \o x \o "\">" : x \in StyleTexts}

IsOpenTag(e) == e \in OpenTags
IsTag(e) == IsOpenTag(e) \/ e = "</span>"

\* number of spans open after the first p elements of out
RECURSIVE DepthAt(_, _)
DepthAt(out, p) ==
    IF p = 0 THEN 0
    ELSE DepthAt(out, p - 1)
         + (IF IsOpenTag(out[p]) THEN 1 ELSE IF out[p] = "</span>" THEN -1 ELSE 0)

Balanced(out) ==
    /\ \A p \in 1..Len(out) :
          /\ DepthAt(out, p) \in {0, 1}
          /\ out[p] = "</span>" => DepthAt(out, p - 1) = 1
    /\ DepthAt(out, Len(out)) = 0

\* C1: the output of ansi_to_html has balanced, non-nested spans: scanning it left
\* to right the number of open spans is always 0 or 1, a </span> comes only while
\* a span is open, and no span is open at the end.
C1_SpansBalanced == called => Balanced(html)

C1_Witness ==
    /\ called
    /\ \E p, q \in 1..Len(html) :
          /\ p + 2 < q
          /\ IsOpenTag(html[p]) /\ IsOpenTag(html[q])
          /\ ~IsTag(html[p + 1]) /\ html[p + 2] = "</span>"

\* the output with its span tags removed
TextOf(out) == SelectSeq(out, LAMBDA e : ~IsTag(e))

StartsWith(s, pre) == Len(s) >= Len(pre) /\ SubSeq(s, 1, Len(pre)) = pre
Drop(s, n) == SubSeq(s, n + 1, Len(s))

\* one left-to-right pass decoding &amp; &lt; &gt;
RECURSIVE Decode(_)
Decode(s) ==
    IF s = <<>> THEN <<>>
    ELSE IF StartsWith(s, <<"&", "a", "m", "p", ";">>) THEN <<"&">> \o Decode(Drop(s, 5))
    ELSE IF StartsWith(s, <<"&", "l", "t", ";">>) THEN <<"<">> \o Decode(Drop(s, 4))
    ELSE IF StartsWith(s, <<"&", "g", "t", ";">>) THEN <<">">> \o Decode(Drop(s, 4))
    ELSE <<Head(s)>> \o Decode(Tail(s))

\* the index of the final "m" of an SGR escape starting at i, or 0 when there is none
EscapeEndAt(s, i) ==
    IF /\ s[i] = ESC
       /\ i + 1 <= Len(s)
       /\ s[i + 1] = "["
       /\ \E j \in (i + 2)..Len(s) :
             s[j] = "m" /\ \A k \in (i + 2)..(j - 1) : s[k] \in CodeChars
    THEN CHOOSE j \in (i + 2)..Len(s) :
             s[j] = "m" /\ \A k \in (i + 2)..(j - 1) : s[k] \in CodeChars
    ELSE 0

\* the line with every SGR escape removed, from index i on
RECURSIVE Visible(_, _)
Visible(s, i) ==
    IF i > Len(s) THEN <<>>
    ELSE IF EscapeEndAt(s, i) > 0 THEN Visible(s, EscapeEndAt(s, i) + 1)
    ELSE <<s[i]>> \o Visible(s, i + 1)

Count(s, ch) == Cardinality({i \in 1..Len(s) : s[i] = ch})

\* C2: removing the span tags from the output and decoding &amp; &lt; &gt; gives the
\* line with every SGR escape removed; each of & < > is escaped exactly once (no raw
\* < or > is left, and the text grows by exactly one entity per special character).
C2_VisibleTextKept ==
    called =>
        LET txt == TextOf(html)
            vis == Visible(line, 1)
        IN /\ Decode(txt) = vis
           /\ Count(txt, "<") = 0 /\ Count(txt, ">") = 0
           /\ Count(txt, "&") = Count(vis, "&") + Count(vis, "<") + Count(vis, ">")
           /\ Len(txt) = Len(vis) + 4 * Count(vis, "&") + 3 * Count(vis, "<")
                                  + 3 * Count(vis, ">")

C2_Witness ==
    /\ called
    /\ Len(states) >= 2
    /\ Count(line, "&") >= 1 /\ Count(line, "<") >= 1
    /\ \E p \in 1..Len(html) : IsOpenTag(html[p])

\* C3: ansi_to_html never emits an empty span: every <span ...> of the output is
\* followed by at least one character of text before its </span>.
C3_NoEmptySpan ==
    called =>
        \A p \in 1..Len(html) :
            IsOpenTag(html[p]) => p < Len(html) /\ ~IsTag(html[p + 1])

IsReset(codes) == codes = <<>> \/ codes = <<"0">>

\* the numeric values of the non-empty tokens of a code list
Vals(codes) ==
    LET toks == SelectSeq(Split(codes), LAMBDA c : c # <<>>)
    IN [i \in 1..Len(toks) |-> int(toks[i])]

\* the escape sets a color or bold
StyleSetting(codes) ==
    \E i \in 1..Len(Vals(codes)) : Vals(codes)[i] = 1 \/ Vals(codes)[i] \in ColorCodes

\* the text between match k and the next match (or the end of the line), escaped
EscapedAfter(ms, k) ==
    html_escape(Slice(line, ms[k].end,
                      IF k = Len(ms) THEN Len(line) ELSE ms[k + 1].start))

\* C4: an escape whose code list is empty or exactly "0" closes the open span if
\* there is one and clears color and bold; the text after it is emitted outside any
\* span until a later escape sets a color or bold, and after a reset followed by no
\* style-setting escape no span is open.
C4_ResetClears ==
    called =>
        LET ms == finditer(line, 0)
            n == Len(ms)
        IN \A k \in 1..n : IsReset(ms[k].codes) =>
              /\ ~states[k + 1].open_span
              /\ states[k + 1].current_style = [color |-> "none", bold |-> FALSE]
              /\ states[k + 1].out =
                    states[k].out
                    \o (IF k = 1 THEN html_escape(Slice(line, 0, ms[1].start))
                        ELSE EscapedAfter(ms, k - 1))
                    \o (IF states[k].open_span THEN <<"</span>">> ELSE <<>>)
              /\ \A j \in k..n :
                    (\A i \in (k + 1)..j : ~StyleSetting(ms[i].codes)) =>
                        /\ ~states[j + 1].open_span
                        /\ \A p \in Len(states[k + 1].out)
                                      ..(Len(states[j + 1].out) + Len(EscapedAfter(ms, j))) :
                              /\ p <= Len(html)
                              /\ DepthAt(html, p) = 0

C4_Witness ==
    /\ called
    /\ LET ms == finditer(line, 0)
       IN \E k \in 1..Len(ms) :
             /\ IsReset(ms[k].codes)
             /\ states[k].open_span
             /\ k > 1 /\ EscapedAfter(ms, k - 1) # <<>>
             /\ EscapedAfter(ms, k) # <<>>

Max(S) == CHOOSE x \in S : \A y \in S : y <= x

\* the style after an escape with sub-code values v, as the claim states it:
\* 1 sets bold, 30-37 / 90-97 set the color, everything else changes nothing
ExpectedStyleOriginal(old, v) ==
    LET cols == {i \in 1..Len(v) : v[i] \in ColorCodes}
    IN [color |-> IF cols = {} THEN old.color ELSE ANSI_COLOR[v[Max(cols)]],
        bold |-> old.bold \/ \E i \in 1..Len(v) : v[i] = 1]

\* the same, with a sub-code of value 0 clearing color and bold
ExpectedStyle(old, v) ==
    LET zeros == {i \in 1..Len(v) : v[i] = 0}
    IN IF zeros = {} THEN ExpectedStyleOriginal(old, v)
       ELSE ExpectedStyleOriginal([color |-> "none", bold |-> FALSE],
                                  SubSeq(v, Max(zeros) + 1, Len(v)))

\* C5 as stated: every sub-code other than 1, 30-37, 90-97 leaves the style unchanged.
C5_OnlyBoldAndColorChange ==
    called =>
        LET ms == finditer(line, 0)
        IN \A k \in 1..Len(ms) : ~IsReset(ms[k].codes) =>
              LET e == ExpectedStyleOriginal(states[k].current_style, Vals(ms[k].codes))
              IN /\ states[k + 1].current_style = e
                 /\ states[k + 1].open_span = (e.color # "none" \/ e.bold)

\* C5 amended: for an escape whose code list is neither empty nor exactly "0", the
\* style after it is the style before it changed by its sub-codes in order: value 0
\* clears color and bold, value 1 sets bold, 30-37 / 90-97 set the color, every other
\* value and every empty token changes nothing; a span with exactly that style is
\* opened if and only if the resulting style has a color or bold.
C5_StyleAfterEscape ==
    called =>
        LET ms == finditer(line, 0)
        IN \A k \in 1..Len(ms) : ~IsReset(ms[k].codes) =>
              LET e == ExpectedStyle(states[k].current_style, Vals(ms[k].codes))
              IN /\ states[k + 1].current_style = e
                 /\ states[k + 1].open_span = (e.color # "none" \/ e.bold)
                 /\ states[k + 1].open_span =>
                       Last(states[k + 1].out) \in OpenTags
                       /\ Last(states[k + 1].out) = SpanOpen(style_to_html(e))

C5_Witness ==
    /\ called
    /\ LET ms == finditer(line, 0)
       IN \E k \in 1..Len(ms) :
             /\ ~IsReset(ms[k].codes)
             /\ states[k].current_style.bold
             /\ \E i \in 1..Len(Vals(ms[k].codes)) : Vals(ms[k].codes)[i] = 0
             /\ states[k + 1].open_span
             /\ ~states[k + 1].current_style.bold

\* the level-tag pattern: one of I W E V D, optional whitespace, "(" digits ")"
LevelTag(s) ==
    /\ s # <<>>
    /\ s[1] \in {"I", "W", "E", "V", "D"}
    /\ LET r == LStrip(Tail(s))
       IN /\ Len(r) >= 3
          /\ r[1] = "("
          /\ LET e == CodeEnd(r, 2)
             IN /\ e > 2 /\ e <= Len(r) /\ r[e] = ")"
                /\ \A k \in 2..(e - 1) : r[k] \in DigitChars

LevelKind(c) ==
    CASE c = "I" -> "info" [] c = "W" -> "warning" [] c = "E" -> "error"
      [] c = "V" -> "verbose" [] c = "D" -> "debug"

\* C6: a line that starts with a level tag (I, W, E, V or D, optional whitespace, a
\* parenthesized number) is classified info, warning, error, verbose, debug by its
\* letter, whatever the rest of the line contains.
C6_LevelTagFirst ==
    called => (LevelTag(line) => kind = LevelKind(line[1]))

GroupKinds == <<"error", "warning", "info", "debug", "verbose">>

\* the keyword groups as the claim lists them
ClaimTokens ==
    <<{<<"e", "r", "r", "o", "r">>, <<"f", "a", "t", "a", "l">>, <<"f", "a", "i", "l">>,
       <<"e", "x", "c", "e", "p", "t", "i", "o", "n">>, <<"a", "s", "s", "e", "r", "t">>},
      {<<"w", "a", "r", "n">>},
      {<<"i", "n", "f", "o">>},
      {<<"d", "e", "b", "u", "g">>, <<"d", "b", "g">>},
      {<<"v", "e", "r", "b">>, <<"t", "r", "a", "c", "e">>}>>

\* the keyword groups with the bracketed / spaced one-letter tags
AmendedTokens ==
    <<ClaimTokens[1] \cup {<<" ", "e", " ">>, <<"[", "e", "]">>, <<" ", "e", "/">>},
      ClaimTokens[2] \cup {<<" ", "w", " ">>, <<"[", "w", "]">>, <<" ", "w", "/">>},
      ClaimTokens[3] \cup {<<" ", "i", " ">>, <<"[", "i", "]">>, <<" ", "i", "/">>},
      ClaimTokens[4] \cup {<<" ", "d", " ">>, <<"[", "d", "]">>, <<" ", "d", "/">>},
      ClaimTokens[5] \cup {<<" ", "v", " ">>, <<"[", "v", "]">>, <<" ", "v", "/">>}>>

GroupHit(t, table, g) == \E tok \in table[g] : In(tok, t)

\* the category of the first group with a token in t; "default" (the result for a
\* line that holds none of them) when no group has one
FirstGroup(t, table) ==
    IF \E g \in 1..5 : GroupHit(t, table, g)
    THEN GroupKinds[CHOOSE g \in 1..5 :
                        GroupHit(t, table, g) /\ \A h \in 1..(g - 1) : ~GroupHit(t, table, h)]
    ELSE "default"

Plain(s) == ~In(<<ESC, "[">>, s) /\ ~LevelTag(s)

\* C7 as stated: the tokens are exactly error, fatal, fail, exception, assert / warn /
\* info / debug, dbg / verb, trace, and no other substring changes the result.
C7_KeywordsExactly ==
    called /\ Plain(line) => kind = FirstGroup(lower(line), ClaimTokens)

\* C7 amended: for a line with no ESC[ that does not match the level-tag pattern,
\* classify_line returns the category of the first group, in the order error >
\* warning > info > debug > verbose, with a token that is a substring of the line
\* stripped of surrounding whitespace and lower-cased, the tokens being those of the
\* claim and, per group, " x ", "[x]", " x/" for x = e, w, i, d, v; "default" if none.
C7_KeywordsAndTags ==
    called /\ Plain(line) => kind = FirstGroup(lower(strip(line)), AmendedTokens)

C7_Witness ==
    /\ called
    /\ Plain(line)
    /\ kind = "warning"
    /\ In(<<"[", "w", "]">>, line)
    /\ GroupHit(lower(line), ClaimTokens, 3)
    /\ line[1] = " "


Arrivals(q) == {q[i].arrival : i \in {j \in 1..Len(q) : q[j].arrival > 0}}
Emitting == {t \in Sessions : threads[t].pc = "emit"}

Increasing(buf) ==
    \A i, j \in 1..Len(buf) :
        i < j /\ buf[i].arrival > 0 /\ buf[j].arrival > 0 => buf[i].arrival < buf[j].arrival

\* the line of a buffer entry, without its stamp
RawOf(d) == IF StartsWith(d, TimeStamp) THEN Drop(d, Len(TimeStamp)) ELSE d
StampOf(d) == IF StartsWith(d, TimeStamp) THEN TimeStamp ELSE <<>>

\* every line read is in exactly one place: held by its reader before the emit, in
\* the signal queue, in one buffer, or dropped by clear_logs
C8_ExactlyOnce ==
    /\ Cardinality(Emitting) + Len(LineEntries(queue)) + Len(LineEntries(debug_buffer))
          + Len(LineEntries(esp_buffer)) + ncleared = nread
    /\ Cardinality({threads[t].arrival : t \in Emitting} \cup Arrivals(queue)
                   \cup Arrivals(debug_buffer) \cup Arrivals(esp_buffer))
          = nread - ncleared

\* esp_buffer holds the lines with ESC[, rendered by ansi_to_html; debug_buffer the
\* lines without, colored by classify_line
C8_Routed ==
    /\ Len(esp_terminal) = Len(esp_buffer)
    /\ Len(debug_terminal) = Len(debug_buffer)
    /\ \A i \in 1..Len(esp_buffer) :
          LET d == esp_buffer[i].display_line
          IN /\ esp_buffer[i].arrival > 0
             /\ In(<<ESC, "[">>, d)
             /\ esp_terminal[i] =
                   html_escape(StampOf(d)) \o ansi_to_html(RawOf(d)) \o <<"<br>">>
    /\ \A i \in 1..Len(debug_buffer) :
          LET d == debug_buffer[i].display_line
          IN debug_buffer[i].arrival > 0 =>
                /\ ~In(<<ESC, "[">>, d)
                /\ debug_terminal[i] =
                      html_escape(StampOf(d))
                      \o <<"<span style=\"color:" \o LOG_COLORS[classify_line(RawOf(d))] \o "\">">>
                      \o html_escape(RawOf(d)) \o <<"</span>", "<br>">>

\* each buffer holds its lines in the order readline returned them
C8_ArrivalOrder == Increasing(debug_buffer) /\ Increasing(esp_buffer)

\* C8: every non-empty line read by read_serial is delivered to on_append_log exactly
\* once and appended to exactly one of the two buffers, in arrival order: to
\* esp_buffer (rendered with ansi_to_html) iff it contains ESC[, otherwise to
\* debug_buffer (colored by classify_line).
C8_DeliveredOnceInOrder == C8_ExactlyOnce /\ C8_Routed /\ C8_ArrivalOrder

\* C9: at most one reader thread reads from the current serial connection: a thread
\* started by an earlier Start never reads from the connection a later Start opened.
C9_SingleReader ==
    \A t \in Sessions :
        threads[t].pc = "readline" /\ threads[t].conn = serial_connection
            => t = read_thread

InLoop(t) == threads[t].pc \in {"while", "call", "readline", "emit"}

\* C10: running = True implies that a reader thread is alive in the read loop of
\* read_serial.
C10_RunningHasReader == running => \E t \in Sessions : InLoop(t)

=============================================================================
